---------------------------- MODULE Spec2Model ----------------------------
(***************************************************************************)
(* Voxel shape kernel of the Chiselcore shape editor: connectivity         *)
(* analysis and shape validation (ShapeValidator), the binary-string       *)
(* codec, the payload validation and the grid resampler (ShapeSerializer), *)
(* and the editor's handlers (App).                                        *)
(*                                                                         *)
(* A JavaScript array is a sequence: the array index i is the sequence     *)
(* index i + 1.  A voxel position {x, y, z} is the tuple <<x, y, z>>; the  *)
(* visitation key `${x},${y},${z}` is that tuple too (the key is injective *)
(* on integer coordinates).  A JavaScript string is a sequence of          *)
(* one-character strings.                                                  *)
(***************************************************************************)
EXTENDS Integers, Sequences, FiniteSets, TLC

VARIABLES
    gridSize,    \* side of the grid at hand
    voxelData,   \* its cells, gridSize^3 booleans
    jsonData,    \* the payload at hand: voxelDataString, difficulty, maxMoves
                 \* (in the editor, the payload the last step downloaded)
    length,      \* binaryString.length of the string given to detectGridSize
    call,        \* the last call or handler: its name, arguments, result
    voxelMode,      \* the editor's mode, 'add' or 'remove'
    statusMessage,  \* the editor's status line
    shapeMetadata   \* the editor's metadata: difficulty, maxMoves

vars ==
    <<gridSize, voxelData, jsonData, length, call, voxelMode, statusMessage,
      shapeMetadata>>

(***************************************************************************)
(* Bounds of the model.                                                    *)
(***************************************************************************)
MaxGridSize == 2

MaxVoxels == 3

MaxTargetSize == 4

MaxStringLength == 8

MaxCubeRoot == 32

-----------------------------------------------------------------------------
(***************************************************************************)
(* Data model                                                              *)
(***************************************************************************)

\* index = x + y * gridSize + z * gridSize * gridSize
getVoxelIndex(x, y, z, N) == x + y * N + z * N * N

\* if (voxelData[index]): a read outside the array is undefined, which is falsy
Truthy(arr, i) == i >= 0 /\ i < Len(arr) /\ arr[i + 1]

\* voxelData.filter(voxel => voxel).length
CountVoxels(arr) == Cardinality({i \in 1..Len(arr) : arr[i]})

\* for x { for y { for z { ... } } }: the k-th iteration (k from 0) of the
\* three nested loops over [0, N), x outermost and z innermost
LoopPosition(k, N) == <<k \div (N * N), (k \div N) % N, k % N>>

LoopOrder(N) == [k \in 1..(N * N * N) |-> LoopPosition(k - 1, N)]

\* the scan that collects voxelPositions, in loop order
CollectVoxelPositions(arr, N) ==
    SelectSeq(LoopOrder(N),
              LAMBDA p : Truthy(arr, getVoxelIndex(p[1], p[2], p[3], N)))

RECURSIVE RepeatWhile(_, _, _, _)
\* while (Live(s)) { s = Step(s) }, for a loop that ends within n iterations.
\* The iterations are run in two halves, one after the other, so that the
\* depth of the evaluation grows with log n, not with n.
RepeatWhile(Step(_), Live(_), s, n) ==
    IF n = 0 \/ ~Live(s) THEN s
    ELSE IF n = 1 THEN Step(s)
    ELSE LET half == RepeatWhile(Step, Live, s, n \div 2)
         IN IF Live(half)
            THEN RepeatWhile(Step, Live, half, n - n \div 2)
            ELSE half

-----------------------------------------------------------------------------
(***************************************************************************)
(* ConnectivityAnalyzer                                                    *)
(***************************************************************************)

\* faulty variant: the step { x: 0, y: 0, z: -1 } is missing
directionsWithoutLast ==
    << <<1, 0, 0>>, <<-1, 0, 0>>, <<0, 1, 0>>, <<0, -1, 0>>,
       <<0, 0, 1>> >>

directions ==
    << <<1, 0, 0>>, <<-1, 0, 0>>, <<0, 1, 0>>, <<0, -1, 0>>,
       <<0, 0, 1>>, <<0, 0, -1>> >>

RECURSIVE FccVisitDirectionsUnmarked(_, _, _, _, _, _)
\* faulty variant: a queued neighbor is not added to visited
FccVisitDirectionsUnmarked(i, current, visited, queue, arr, N) ==
    IF i > Len(directions) THEN [visited |-> visited, queue |-> queue]
    ELSE LET dir == directions[i]
             neighbor == <<current[1] + dir[1], current[2] + dir[2],
                           current[3] + dir[3]>>
             inside == /\ neighbor[1] >= 0 /\ neighbor[1] < N
                       /\ neighbor[2] >= 0 /\ neighbor[2] < N
                       /\ neighbor[3] >= 0 /\ neighbor[3] < N
             neighborIndex == neighbor[1] + neighbor[2] * N + neighbor[3] * N * N
         IN IF inside /\ Truthy(arr, neighborIndex) /\ neighbor \notin visited
            THEN FccVisitDirectionsUnmarked(i + 1, current, visited,
                                            Append(queue, neighbor), arr, N)
            ELSE FccVisitDirectionsUnmarked(i + 1, current, visited, queue,
                                            arr, N)

RECURSIVE FccVisitDirections(_, _, _, _, _, _)
\* for (const dir of directions) { ... } of one dequeued cell
FccVisitDirections(i, current, visited, queue, arr, N) ==
    IF i > Len(directions) THEN [visited |-> visited, queue |-> queue]
    ELSE LET dir == directions[i]
             neighbor == <<current[1] + dir[1], current[2] + dir[2],
                           current[3] + dir[3]>>
             inside == /\ neighbor[1] >= 0 /\ neighbor[1] < N
                       /\ neighbor[2] >= 0 /\ neighbor[2] < N
                       /\ neighbor[3] >= 0 /\ neighbor[3] < N
             neighborIndex ==
                 getVoxelIndex(neighbor[1], neighbor[2], neighbor[3], N)
         IN IF inside /\ Truthy(arr, neighborIndex) /\ neighbor \notin visited
            THEN FccVisitDirections(i + 1, current, visited \cup {neighbor},
                                    Append(queue, neighbor), arr, N)
            ELSE FccVisitDirections(i + 1, current, visited, queue, arr, N)

\* one iteration of while (queue.length > 0): current = queue.shift();
\* component.push(current); for (const dir of directions) { ... }
FccFloodStep(s, arr, N) ==
    LET current == Head(s.queue)
        r == FccVisitDirections(1, current, s.visited, Tail(s.queue), arr, N)
    IN [queue |-> r.queue, visited |-> r.visited,
        component |-> Append(s.component, current)]

\* while (queue.length > 0) { ... }: a cell is queued once, when it is added
\* to visited, so the loop ends within N^3 iterations
FccFlood(queue, visited, component, arr, N) ==
    LET Step(s) == FccFloodStep(s, arr, N)
        Live(s) == Len(s.queue) > 0
        end == RepeatWhile(Step, Live,
                           [queue |-> queue, visited |-> visited,
                            component |-> component], N * N * N)
    IN [visited |-> end.visited, component |-> end.component]

\* one iteration of for (const voxelPos of voxelPositions):
\* if (!visited.has(voxelKey)) { ...; components.push(component) }
FccSeedsStep(s, voxelPositions, arr, N) ==
    LET voxelPos == voxelPositions[s.i]
    IN IF voxelPos \notin s.visited
       THEN LET r == FccFlood(<<voxelPos>>, s.visited \cup {voxelPos},
                              <<>>, arr, N)
            IN [i |-> s.i + 1, visited |-> r.visited,
                components |-> Append(s.components, r.component)]
       ELSE [s EXCEPT !.i = s.i + 1]

\* for (const voxelPos of voxelPositions) { ... }, from the i-th position on
FccSeeds(i, voxelPositions, visited, components, arr, N) ==
    LET Step(s) == FccSeedsStep(s, voxelPositions, arr, N)
        Live(s) == s.i <= Len(voxelPositions)
    IN RepeatWhile(Step, Live,
                   [i |-> i, visited |-> visited, components |-> components],
                   Len(voxelPositions)).components

\* voxelData is an array in every call, so !voxelData is false
findConnectedComponents(arr, N) ==
    IF N <= 0 THEN <<>>
    ELSE LET voxelPositions == CollectVoxelPositions(arr, N)
         IN IF Len(voxelPositions) = 0 THEN <<>>
            ELSE FccSeeds(1, voxelPositions, {}, <<>>, arr, N)

isValidPosition(x, y, z, N) ==
    x >= 0 /\ x < N /\ y >= 0 /\ y < N /\ z >= 0 /\ z < N

faceDirections ==
    << <<1, 0, 0>>, <<-1, 0, 0>>, <<0, 1, 0>>, <<0, -1, 0>>,
       <<0, 0, 1>>, <<0, 0, -1>> >>

edgeDirections ==
    << <<1, 1, 0>>, <<1, -1, 0>>, <<-1, 1, 0>>, <<-1, -1, 0>>,
       <<1, 0, 1>>, <<1, 0, -1>>, <<-1, 0, 1>>, <<-1, 0, -1>>,
       <<0, 1, 1>>, <<0, 1, -1>>, <<0, -1, 1>>, <<0, -1, -1>> >>

\* faulty variant: [1, -1, -1] mistyped as [1, -1, 1]
cornerDirectionsMistyped ==
    << <<1, 1, 1>>, <<1, 1, -1>>, <<1, -1, 1>>, <<1, -1, 1>>,
       <<-1, 1, 1>>, <<-1, 1, -1>>, <<-1, -1, 1>>, <<-1, -1, -1>> >>

cornerDirections ==
    << <<1, 1, 1>>, <<1, 1, -1>>, <<1, -1, 1>>, <<1, -1, -1>>,
       <<-1, 1, 1>>, <<-1, 1, -1>>, <<-1, -1, 1>>, <<-1, -1, -1>> >>

\* directions.map(([dx, dy, dz]) => [x + dx, y + dy, z + dz])
OffsetAll(dirs, x, y, z) ==
    [i \in 1..Len(dirs) |-> <<x + dirs[i][1], y + dirs[i][2], z + dirs[i][3]>>]

\* faulty variant: the edge offsets are added for 'edge' only, not for 'corner'
getNeighborsCornerWithoutEdges(x, y, z, connectivityType) ==
    OffsetAll(faceDirections, x, y, z)
    \o (IF connectivityType = "edge"
        THEN OffsetAll(edgeDirections, x, y, z) ELSE <<>>)
    \o (IF connectivityType = "corner"
        THEN OffsetAll(cornerDirections, x, y, z) ELSE <<>>)

\* faulty variant: each rule adds only its own offsets
getNeighborsOwnOffsetsOnly(x, y, z, connectivityType) ==
    (IF connectivityType = "face"
     THEN OffsetAll(faceDirections, x, y, z) ELSE <<>>)
    \o (IF connectivityType = "edge"
        THEN OffsetAll(edgeDirections, x, y, z) ELSE <<>>)
    \o (IF connectivityType = "corner"
        THEN OffsetAll(cornerDirections, x, y, z) ELSE <<>>)

getNeighbors(x, y, z, connectivityType) ==
    OffsetAll(faceDirections, x, y, z)
    \o (IF connectivityType = "edge" \/ connectivityType = "corner"
        THEN OffsetAll(edgeDirections, x, y, z) ELSE <<>>)
    \o (IF connectivityType = "corner"
        THEN OffsetAll(cornerDirections, x, y, z) ELSE <<>>)

RECURSIVE IscVisitNeighbors(_, _, _, _, _, _)
\* for (const [nx, ny, nz] of neighbors) { ... } of one dequeued cell
IscVisitNeighbors(i, neighbors, visited, queue, arr, N) ==
    IF i > Len(neighbors) THEN [visited |-> visited, queue |-> queue]
    ELSE LET n == neighbors[i]
         IN IF /\ isValidPosition(n[1], n[2], n[3], N)
               /\ Truthy(arr, getVoxelIndex(n[1], n[2], n[3], N))
               /\ n \notin visited
            THEN IscVisitNeighbors(i + 1, neighbors, visited \cup {n},
                                   Append(queue, n), arr, N)
            ELSE IscVisitNeighbors(i + 1, neighbors, visited, queue, arr, N)

\* one iteration of while (queue.length > 0): current = queue.shift();
\* for (const [nx, ny, nz] of getNeighbors(...)) { ... }
IscFloodStep(s, arr, N, connectivityType) ==
    LET current == Head(s.queue)
        neighbors == getNeighbors(current[1], current[2], current[3],
                                  connectivityType)
        r == IscVisitNeighbors(1, neighbors, s.visited, Tail(s.queue), arr, N)
    IN [queue |-> r.queue, visited |-> r.visited]

\* while (queue.length > 0) { ... }; yields visited.  A cell is queued once,
\* when it is added to visited, so the loop ends within N^3 iterations.
IscFlood(queue, visited, arr, N, connectivityType) ==
    LET Step(s) == IscFloodStep(s, arr, N, connectivityType)
        Live(s) == Len(s.queue) > 0
    IN RepeatWhile(Step, Live, [queue |-> queue, visited |-> visited],
                   N * N * N).visited

\* voxelData is an array in every call, so !voxelData is false
isShapeConnected(arr, N, connectivityType) ==
    IF N <= 0 THEN FALSE
    ELSE LET voxelPositions == CollectVoxelPositions(arr, N)
         IN IF Len(voxelPositions) = 0 THEN FALSE
            ELSE IF Len(voxelPositions) = 1 THEN TRUE
            ELSE LET visited == IscFlood(<<voxelPositions[1]>>,
                                         {voxelPositions[1]}, arr, N,
                                         connectivityType)
                 IN Cardinality(visited) = Len(voxelPositions)

ConnectivityTypes == {"face", "edge", "corner"}

RECURSIVE SpreadFrom(_, _)
\* for (i; i < components.length; i++) floatingVoxels.push(...components[i])
SpreadFrom(components, i) ==
    IF i > Len(components) THEN <<>>
    ELSE components[i] \o SpreadFrom(components, i + 1)

\* faulty variant: the loop starts at the first component
getConnectivityDebugInfoFromFirst(arr, N) ==
    LET components == findConnectedComponents(arr, N)
    IN [componentCount |-> Len(components),
        components |-> components,
        floatingVoxels |-> IF Len(components) > 1
                           THEN SpreadFrom(components, 1) ELSE <<>>,
        totalVoxels |-> CountVoxels(arr)]

\* the loop starts at components[1], the second component
getConnectivityDebugInfo(arr, N) ==
    LET components == findConnectedComponents(arr, N)
    IN [componentCount |-> Len(components),
        components |-> components,
        floatingVoxels |-> IF Len(components) > 1
                           THEN SpreadFrom(components, 2) ELSE <<>>,
        totalVoxels |-> CountVoxels(arr)]

isShapeUniform(arr, N, connectivityType) ==
    isShapeConnected(arr, N, connectivityType)

connectivityDesc(connectivityType) ==
    IF connectivityType = "face" THEN "by faces"
    ELSE IF connectivityType = "edge" THEN "by faces and edges"
    ELSE "by faces, edges and corners"

\* the two errors pushed when componentCount > 1
SeparatePartsErrors(debugInfo, connectivityType) ==
    << <<"All voxels must be connected ", connectivityDesc(connectivityType),
         " (found ", debugInfo.componentCount, " separate parts)">>,
       <<"Floating voxels: ", Len(debugInfo.floatingVoxels), " voxels in ",
         debugInfo.componentCount - 1, " groups">> >>

\* faulty variant: no return after the first error
ShapeErrorsWithoutReturn(hasVoxels, isConnected, debugInfo, connectivityType) ==
    (IF ~hasVoxels THEN << <<"Shape must have at least one voxel">> >>
     ELSE <<>>)
    \o (IF ~isConnected
        THEN IF debugInfo.componentCount > 1
             THEN SeparatePartsErrors(debugInfo, connectivityType)
             ELSE << <<"All voxels must be connected (no floating parts)">> >>
        ELSE <<>>)

\* faulty variant: the parts are reported even when the shape is connected
\* under the rule
ShapeErrorsIgnoringRule(hasVoxels, isConnected, debugInfo, connectivityType) ==
    IF ~hasVoxels THEN << <<"Shape must have at least one voxel">> >>
    ELSE IF debugInfo.componentCount > 1
    THEN SeparatePartsErrors(debugInfo, connectivityType)
    ELSE IF ~isConnected
    THEN << <<"All voxels must be connected (no floating parts)">> >>
    ELSE <<>>

\* validation.errors when validateShape returns
ShapeErrors(hasVoxels, isConnected, debugInfo, connectivityType) ==
    IF ~hasVoxels THEN << <<"Shape must have at least one voxel">> >>
    ELSE IF ~isConnected
    THEN IF debugInfo.componentCount > 1
         THEN SeparatePartsErrors(debugInfo, connectivityType)
         ELSE << <<"All voxels must be connected (no floating parts)">> >>
    ELSE <<>>

\* the return after the first error leaves isConnected, isUniform and
\* isValid false
validateShape(arr, N, connectivityType) ==
    LET voxelCount == CountVoxels(arr)
        debugInfo == getConnectivityDebugInfo(arr, N)
        hasVoxels == voxelCount > 0
        isConnected ==
            hasVoxels /\ isShapeConnected(arr, N, connectivityType)
        isUniform == isConnected
    IN [hasVoxels |-> hasVoxels,
        isConnected |-> isConnected,
        isUniform |-> isUniform,
        voxelCount |-> voxelCount,
        isValid |-> hasVoxels /\ isConnected /\ isUniform,
        errors |-> ShapeErrors(hasVoxels, isConnected, debugInfo,
                               connectivityType),
        debugInfo |-> debugInfo,
        connectivityType |-> connectivityType]

-----------------------------------------------------------------------------
(***************************************************************************)
(* ShapeCodec.  A call either returns a value or throws.                   *)
(***************************************************************************)

Return(v) == [threw |-> FALSE, value |-> v]

Throw(message) == [threw |-> TRUE, value |-> message]

\* voxelData.map(voxel => voxel ? '1' : '0').join('')
voxelDataToBinaryString(arr) ==
    [i \in 1..Len(arr) |-> IF arr[i] THEN "1" ELSE "0"]

\* faulty variant: bit === '0'
binaryStringToVoxelDataInverted(str) == [i \in 1..Len(str) |-> str[i] = "0"]

\* binaryString.split('').map(bit => bit === '1')
binaryStringToVoxelData(str) == [i \in 1..Len(str) |-> str[i] = "1"]

RECURSIVE RoundCbrtFrom(_, _)
\* Math.round(Math.cbrt(length)): the integer n nearest to the cube root,
\* (2n - 1)^3 <= 8 * length < (2n + 1)^3.  8 * length is even and (2n + 1)^3
\* is odd, so the cube root is never a half and lies further from one than
\* the rounding error of Math.cbrt for every length of the model.
RoundCbrtFrom(n, len) ==
    IF 8 * len < (2 * n + 1) * (2 * n + 1) * (2 * n + 1) THEN n
    ELSE RoundCbrtFrom(n + 1, len)

RoundCbrt(len) == RoundCbrtFrom(0, len)

\* faulty variant: cubeRoot * cubeRoot === length
IsSquareOf(cubeRoot, len) == cubeRoot * cubeRoot = len

\* cubeRoot * cubeRoot * cubeRoot === length
IsCubeOf(cubeRoot, len) == cubeRoot * cubeRoot * cubeRoot = len

NotPerfectCube(len) == <<"Binary string length (", len, ") is not a perfect cube">>

\* detectGridSize, on binaryString.length (all it reads of the string)
DetectFromLength(len) ==
    LET cubeRoot == RoundCbrt(len)
    IN IF IsCubeOf(cubeRoot, len) THEN Return(cubeRoot)
       ELSE Throw(NotPerfectCube(len))

detectGridSize(str) == DetectFromLength(Len(str))

\* A JavaScript value: undefined (a missing field), null, an integer
\* number, the non-integer number n + 1/2, a string.  A parsed payload is
\* such a value or JsObject, an object with the three fields read by the
\* code (every other field is ignored; an array is an object without them).
JsUndefined == [type |-> "undefined", value |-> 0]

JsNull == [type |-> "null", value |-> 0]

JsNumber(n) == [type |-> "number", value |-> n]

\* NaN, as parseInt gives for a text that is not a number
JsNaN == [type |-> "NaN", value |-> 0]

JsHalfAbove(n) == [type |-> "half", value |-> n]

JsString(str) == [type |-> "string", chars |-> str]

JsObject(voxelDataString, difficulty, maxMoves) ==
    [type |-> "object", voxelDataString |-> voxelDataString,
     difficulty |-> difficulty, maxMoves |-> maxMoves]

\* typeof v
TypeOf(v) ==
    IF v.type = "null" THEN "object"
    ELSE IF v.type \in {"half", "NaN"} THEN "number"
    ELSE v.type

\* !v: undefined, null, 0, NaN and the empty string are falsy
Falsy(v) ==
    \/ v.type \in {"undefined", "null", "NaN"}
    \/ (v.type = "number" /\ v.value = 0)
    \/ (v.type = "string" /\ v.chars = <<>>)

\* faulty variant: v ?? d, which keeps 0
OrDefaultNullish(v, d) == IF v.type = "undefined" THEN JsNumber(d) ELSE v

\* v || d
OrDefault(v, d) == IF Falsy(v) THEN JsNumber(d) ELSE v

DefaultDifficulty == 5

DefaultMaxMoves == 50

exportToJSON(arr, metadata) ==
    [voxelDataString |-> voxelDataToBinaryString(arr),
     difficulty |-> OrDefault(metadata.difficulty, DefaultDifficulty),
     maxMoves |-> OrDefault(metadata.maxMoves, DefaultMaxMoves)]

\* binaryStringToVoxelData runs first and does not throw; detectGridSize may.
importFromJSON(json) ==
    LET decoded == binaryStringToVoxelData(json.voxelDataString)
        detected == detectGridSize(json.voxelDataString)
    IN IF detected.threw THEN detected
       ELSE Return([voxelData |-> decoded,
                    gridSize |-> detected.value,
                    metadata |->
                        [difficulty |-> OrDefault(json.difficulty,
                                                  DefaultDifficulty),
                         maxMoves |-> OrDefault(json.maxMoves,
                                                DefaultMaxMoves)]])

\* Number.isInteger(v)
IsInteger(v) == v.type = "number"

\* v < n and v > n for a number v and an integer n (n + 1/2 < m iff n < m)
LessThan(v, n) == v.value < n

GreaterThan(v, n) == v.value >= n + (IF v.type = "half" THEN 0 ELSE 1)

\* faulty variant: /^1+$/
MatchesBitsOnesOnly(str) == Len(str) >= 1 /\ \A i \in 1..Len(str) : str[i] = "1"

\* /^[01]+$/.test(str)
MatchesBits(str) ==
    Len(str) >= 1 /\ \A i \in 1..Len(str) : str[i] \in {"0", "1"}

\* the errors pushed for voxelDataString, in order
VoxelDataStringErrors(json) ==
    IF Falsy(json.voxelDataString) \/ TypeOf(json.voxelDataString) # "string"
    THEN << <<"Missing or invalid voxelDataString field">> >>
    ELSE IF ~MatchesBits(json.voxelDataString.chars)
    THEN << <<"voxelDataString must contain only 0 and 1">> >>
    ELSE LET len == Len(json.voxelDataString.chars)
             cubeRoot == RoundCbrt(len)
         IN IF cubeRoot * cubeRoot * cubeRoot # len
            THEN << <<"voxelDataString length (", len,
                      ") is not a perfect cube">> >>
            ELSE <<>>

\* faulty variant: the upper limit is 100
DifficultyErrorsUpTo100(json) ==
    IF \/ ~IsInteger(json.difficulty)
       \/ LessThan(json.difficulty, 1)
       \/ GreaterThan(json.difficulty, 100)
    THEN << <<"difficulty must be an integer from 1 to 10">> >>
    ELSE <<>>

\* the error pushed for difficulty
DifficultyErrors(json) ==
    IF \/ ~IsInteger(json.difficulty)
       \/ LessThan(json.difficulty, 1)
       \/ GreaterThan(json.difficulty, 10)
    THEN << <<"difficulty must be an integer from 1 to 10">> >>
    ELSE <<>>

\* faulty variant: jsonData.maxMoves < 0
MaxMovesErrorsFromZero(json) ==
    IF \/ ~IsInteger(json.maxMoves)
       \/ LessThan(json.maxMoves, 0)
       \/ GreaterThan(json.maxMoves, 999)
    THEN << <<"maxMoves must be an integer from 1 to 999">> >>
    ELSE <<>>

\* the error pushed for maxMoves
MaxMovesErrors(json) ==
    IF \/ ~IsInteger(json.maxMoves)
       \/ LessThan(json.maxMoves, 1)
       \/ GreaterThan(json.maxMoves, 999)
    THEN << <<"maxMoves must be an integer from 1 to 999">> >>
    ELSE <<>>

validateJSONFormat(json) ==
    IF TypeOf(json) # "object" \/ json.type = "null"
    THEN [isValid |-> FALSE, errors |-> << <<"JSON must be an object">> >>]
    ELSE LET errors == VoxelDataStringErrors(json) \o DifficultyErrors(json)
                         \o MaxMovesErrors(json)
         IN [isValid |-> Len(errors) = 0, errors |-> errors]

-----------------------------------------------------------------------------
(***************************************************************************)
(* GridResampler                                                           *)
(***************************************************************************)

\* new Array(n).fill(false)
FilledArray(n, v) == [i \in 1..n |-> v]

\* arr[i] as a value; a read outside the array is undefined, modelled as
\* false (convertGridSize is only given grids of fromGridSize^3 cells, whose
\* reads are all inside)
ArrayGet(arr, i) == IF i >= 0 /\ i < Len(arr) THEN arr[i + 1] ELSE FALSE

\* arr[i] = v; a write at or past arr.length grows the array to i + 1 cells,
\* the cells in between being holes (read as undefined, modelled as false)
ArraySet(arr, i, v) ==
    IF i < Len(arr) THEN [arr EXCEPT ![i + 1] = v]
    ELSE arr \o FilledArray(i - Len(arr), FALSE) \o <<v>>

\* faulty variant: toGridSize - fromGridSize, not halved
expandOffsetNotHalved(fromGridSize, toGridSize) == toGridSize - fromGridSize

\* Math.floor((toGridSize - fromGridSize) / 2)
expandOffset(fromGridSize, toGridSize) == (toGridSize - fromGridSize) \div 2

\* faulty variant: Math.ceil((fromGridSize - toGridSize) / 2)
cropOffsetCeil(fromGridSize, toGridSize) == (fromGridSize - toGridSize + 1) \div 2

\* faulty variant: no centering, the crop window starts at the origin
cropOffsetNone(fromGridSize, toGridSize) == 0

\* Math.floor((fromGridSize - toGridSize) / 2)
cropOffset(fromGridSize, toGridSize) == (fromGridSize - toGridSize) \div 2

\* faulty variant: x and z swapped, z + y * fromGridSize + x * fromGridSize^2
sourceIndexTransposed(x, y, z, fromGridSize) ==
    z + y * fromGridSize + x * fromGridSize * fromGridSize

\* oldIndex = x + y * fromGridSize + z * fromGridSize * fromGridSize
sourceIndex(x, y, z, fromGridSize) ==
    x + y * fromGridSize + z * fromGridSize * fromGridSize

\* faulty variant: x + y * toGridSize * toGridSize + z * toGridSize * toGridSize
targetIndexSquaredTwice(x, y, z, toGridSize) ==
    x + y * toGridSize * toGridSize + z * toGridSize * toGridSize

\* newIndex = x + y * toGridSize + z * toGridSize * toGridSize
targetIndex(x, y, z, toGridSize) ==
    x + y * toGridSize + z * toGridSize * toGridSize

\* the k-th iteration (k from 0) of the loops of the branch
\* fromGridSize <= toGridSize
ExpandStep(s, arr, fromGridSize, toGridSize, offset) ==
    LET p == LoopPosition(s.k, fromGridSize)
        oldIndex == sourceIndex(p[1], p[2], p[3], fromGridSize)
        newIndex == targetIndex(p[1] + offset, p[2] + offset, p[3] + offset,
                                toGridSize)
    IN [k |-> s.k + 1,
        newVoxelData |-> ArraySet(s.newVoxelData, newIndex,
                                  ArrayGet(arr, oldIndex))]

\* the loops of the branch fromGridSize <= toGridSize, from iteration k on
ExpandLoop(k, newVoxelData, arr, fromGridSize, toGridSize, offset) ==
    LET iterations == fromGridSize * fromGridSize * fromGridSize
        Step(s) == ExpandStep(s, arr, fromGridSize, toGridSize, offset)
        Live(s) == s.k < iterations
    IN RepeatWhile(Step, Live, [k |-> k, newVoxelData |-> newVoxelData],
                   iterations).newVoxelData

\* the k-th iteration (k from 0) of the loops of the branch
\* fromGridSize > toGridSize
CropStep(s, arr, fromGridSize, toGridSize, offset) ==
    LET p == LoopPosition(s.k, toGridSize)
        oldX == p[1] + offset
        oldY == p[2] + offset
        oldZ == p[3] + offset
    IN IF oldX < fromGridSize /\ oldY < fromGridSize /\ oldZ < fromGridSize
       THEN LET oldIndex == sourceIndex(oldX, oldY, oldZ, fromGridSize)
                newIndex == targetIndex(p[1], p[2], p[3], toGridSize)
            IN [k |-> s.k + 1,
                newVoxelData |-> ArraySet(s.newVoxelData, newIndex,
                                          ArrayGet(arr, oldIndex))]
       ELSE [s EXCEPT !.k = s.k + 1]

\* the loops of the branch fromGridSize > toGridSize, from iteration k on
CropLoop(k, newVoxelData, arr, fromGridSize, toGridSize, offset) ==
    LET iterations == toGridSize * toGridSize * toGridSize
        Step(s) == CropStep(s, arr, fromGridSize, toGridSize, offset)
        Live(s) == s.k < iterations
    IN RepeatWhile(Step, Live, [k |-> k, newVoxelData |-> newVoxelData],
                   iterations).newVoxelData

convertGridSize(arr, fromGridSize, toGridSize) ==
    LET newVoxelData ==
            FilledArray(toGridSize * toGridSize * toGridSize, FALSE)
    IN IF fromGridSize <= toGridSize
       THEN ExpandLoop(0, newVoxelData, arr, fromGridSize, toGridSize,
                       expandOffset(fromGridSize, toGridSize))
       ELSE CropLoop(0, newVoxelData, arr, fromGridSize, toGridSize,
                     cropOffset(fromGridSize, toGridSize))

\* faulty variant: the converted result keeps the detected size as gridSize
importFromJSONWithGridConversionKeepsSize(json, targetGridSize) ==
    LET imported == importFromJSON(json)
    IN IF imported.threw THEN imported
       ELSE LET importedData == imported.value
            IN IF importedData.gridSize = targetGridSize
               THEN Return([voxelData |-> importedData.voxelData,
                            gridSize |-> importedData.gridSize,
                            metadata |-> importedData.metadata,
                            wasConverted |-> FALSE])
               ELSE Return([voxelData |->
                                convertGridSize(importedData.voxelData,
                                                importedData.gridSize,
                                                targetGridSize),
                            gridSize |-> importedData.gridSize,
                            metadata |-> importedData.metadata,
                            originalGridSize |-> importedData.gridSize,
                            wasConverted |-> TRUE])

\* an error thrown by importFromJSON is not caught here
importFromJSONWithGridConversion(json, targetGridSize) ==
    LET imported == importFromJSON(json)
    IN IF imported.threw THEN imported
       ELSE LET importedData == imported.value
            IN IF importedData.gridSize = targetGridSize
               THEN Return([voxelData |-> importedData.voxelData,
                            gridSize |-> importedData.gridSize,
                            metadata |-> importedData.metadata,
                            wasConverted |-> FALSE])
               ELSE Return([voxelData |->
                                convertGridSize(importedData.voxelData,
                                                importedData.gridSize,
                                                targetGridSize),
                            gridSize |-> targetGridSize,
                            metadata |-> importedData.metadata,
                            originalGridSize |-> importedData.gridSize,
                            wasConverted |-> TRUE])

-----------------------------------------------------------------------------
(***************************************************************************)
(* Inputs.  A grid: every grid of side 0..MaxGridSize with at most         *)
(* MaxVoxels occupied cells.  A payload: every string over '0', '1' of     *)
(* length 0..MaxStringLength with each metadata field missing, 0 or in     *)
(* range.  A length: every string length up to MaxCubeRoot^3 and the       *)
(* MaxCubeRoot lengths after it.                                           *)
(***************************************************************************)

RECURSIVE SubsetsUpTo(_, _)
SubsetsUpTo(S, k) ==
    IF k = 0 THEN {{}}
    ELSE LET smaller == SubsetsUpTo(S, k - 1)
         IN smaller \cup {T \cup {e} : T \in smaller, e \in S}

GridOf(occupied, N) == [i \in 1..(N * N * N) |-> (i - 1) \in occupied]

InputGrids(N) ==
    {GridOf(occ, N) : occ \in SubsetsUpTo(0..(N * N * N - 1), MaxVoxels)}

\* the grids of side N that are empty or full, but for one cell at most
SparseOrDenseGrids(N) ==
    LET few == SubsetsUpTo(0..(N * N * N - 1), 1)
    IN {GridOf(occ, N) : occ \in few}
       \cup {GridOf((0..(N * N * N - 1)) \ free, N) : free \in few}

RECURSIVE StringsOfLength(_)
StringsOfLength(n) ==
    IF n = 0 THEN {<<>>}
    ELSE {Append(s, c) : s \in StringsOfLength(n - 1), c \in {"0", "1"}}

InputStrings == UNION {StringsOfLength(n) : n \in 0..MaxStringLength}

InputMetadata == {JsUndefined, JsNumber(0), JsNumber(3)}

NoPayload ==
    [voxelDataString |-> <<>>, difficulty |-> JsUndefined,
     maxMoves |-> JsUndefined]

NoCall == [fn |-> "none"]

Received == [fn |-> "received"]

\* useState('add'), useState('Ready - ...'), useState({difficulty: 5,
\* maxMoves: 50}): the editor state of a fresh editor
ReadyMessage ==
    <<"Ready - Left click to add voxels, right click to rotate camera">>

InitialMetadata == [difficulty |-> JsNumber(5), maxMoves |-> JsNumber(50)]

InitEditorState ==
    /\ voxelMode = "add"
    /\ statusMessage = ReadyMessage
    /\ shapeMetadata = InitialMetadata

editor == <<voxelMode, statusMessage, shapeMetadata>>

\* a grid is at hand
InitGrid ==
    /\ gridSize \in 0..MaxGridSize
    /\ voxelData \in InputGrids(gridSize)
    /\ jsonData = NoPayload
    /\ length = 0
    /\ call = NoCall
    /\ InitEditorState

\* a grid of any side up to the largest target is at hand
InitLargeGrid ==
    /\ gridSize \in 0..MaxTargetSize
    /\ voxelData \in SparseOrDenseGrids(gridSize)
    /\ jsonData = NoPayload
    /\ length = 0
    /\ call = NoCall
    /\ InitEditorState

ShapeOf(cells, N) ==
    GridOf({getVoxelIndex(p[1], p[2], p[3], N) : p \in cells}, N)

\* the five-voxel plus around the centre of a grid of side 3, in each of the
\* three planes
Pluses ==
    LET centre == <<1, 1, 1>>
        arms(i) == {[centre EXCEPT ![i] = 0], [centre EXCEPT ![i] = 2]}
    IN {{centre} \cup arms(1) \cup arms(2),
        {centre} \cup arms(1) \cup arms(3),
        {centre} \cup arms(2) \cup arms(3)}

Corners == {0, 2} \X {0, 2} \X {0, 2}

\* a plus, alone or with one or two corners of the grid occupied too
PlusShapes ==
    {ShapeOf(plus \cup extra, 3) :
        plus \in Pluses, extra \in SubsetsUpTo(Corners, 2)}

\* a grid is at hand: a small one or a plus shape
InitShape ==
    /\ \/ /\ gridSize \in 0..MaxGridSize
          /\ voxelData \in InputGrids(gridSize)
       \/ /\ gridSize = 3
          /\ voxelData \in PlusShapes
    /\ jsonData = NoPayload
    /\ length = 0
    /\ call = NoCall
    /\ InitEditorState

\* a grid and the metadata of its shape are at hand
InitGridWithMetadata ==
    /\ gridSize \in 0..MaxGridSize
    /\ voxelData \in InputGrids(gridSize)
    /\ jsonData = NoPayload
    /\ length = 0
    /\ call = NoCall
    /\ voxelMode = "add"
    /\ statusMessage = ReadyMessage
    /\ shapeMetadata \in [difficulty : InputMetadata, maxMoves : InputMetadata]

\* a payload has been received
InitPayload ==
    /\ gridSize = 0
    /\ voxelData = <<>>
    /\ jsonData \in [voxelDataString : InputStrings,
                     difficulty : InputMetadata, maxMoves : InputMetadata]
    /\ length = 0
    /\ call = Received
    /\ InitEditorState

\* strings of the lengths around a cube, in three digit patterns
LongLengths == {26, 27, 64, 999, 1000, 1001}

LongStrings ==
    UNION {{[i \in 1..n |-> "0"], [i \in 1..n |-> "1"],
            [i \in 1..n |-> IF i % 2 = 0 THEN "0" ELSE "1"]} :
           n \in LongLengths}

\* strings with a character other than 0 and 1
OtherStrings ==
    {<<"2">>, <<"0", "1", "a">>, <<" ", "1">>,
     <<"0", "1", "0", "1", "0", "1", "0", "x">>}

InputFieldValues ==
    {JsUndefined, JsNull, JsNumber(0), JsNumber(1), JsNumber(5),
     JsNumber(10), JsNumber(11), JsNumber(999), JsNumber(1000),
     JsNumber(-1), JsHalfAbove(2), JsString(<<"5">>)}

InputStringValues ==
    {JsUndefined, JsNull, JsNumber(8), JsString(<<>>)}
    \cup {JsString(str) : str \in InputStrings \cup LongStrings
                                    \cup OtherStrings}

InputPayloads ==
    {JsUndefined, JsNull, JsNumber(1), JsString(<<"1">>)}
    \cup {JsObject(str, d, m) : str \in InputStringValues,
                                d \in InputFieldValues,
                                m \in InputFieldValues}

\* a parsed payload of any kind has been received
InitParsed ==
    /\ gridSize = 0
    /\ voxelData = <<>>
    /\ jsonData \in InputPayloads
    /\ length = 0
    /\ call = Received
    /\ InitEditorState

\* the cells the user clicks: the centre of the grid and a corner
ClickCells == {<<3, 3, 3>>, <<0, 0, 0>>}

\* the cells clicked while sculpting: the centre, the cell next to it, two
\* opposite corners
SculptCells == {<<3, 3, 3>>, <<3, 3, 4>>, <<0, 0, 0>>, <<6, 6, 6>>}

\* parseInt(e.target.value) of the texts the user types in a metadata field
TypedValues == {JsNumber(0), JsNaN}

\* the files the user picks: a text that is not JSON, or the value it parses
\* to
Unparsable == [type |-> "unparsable"]

InputFiles ==
    {Unparsable,
     JsNull,
     JsObject(JsString(<<"1", "1", "1">>), JsNumber(5), JsNumber(50)),
     JsObject(JsString(<<"1">>), JsNumber(3), JsNumber(7)),
     JsObject(JsString(<<"1">>), JsNumber(0), JsNumber(50)),
     JsObject(JsString(<<"1", "0", "0", "0", "0", "0", "0", "1">>),
              JsNumber(5), JsNumber(50)),
     JsObject(JsString([i \in 1..343 |-> "0"]), JsNumber(5), JsNumber(50))}

\* new Array(size).fill(true)
initializeFilledCube(N) == FilledArray(N * N * N, TRUE)

\* the editor has just been opened: gridSize = 7, the cube is filled
InitEditor ==
    /\ gridSize = 7
    /\ voxelData = initializeFilledCube(7)
    /\ jsonData = NoPayload
    /\ length = 0
    /\ call = NoCall
    /\ InitEditorState

\* a string of some length is at hand
InitLength ==
    /\ gridSize = 0
    /\ voxelData = <<>>
    /\ jsonData = NoPayload
    /\ length \in 0..(MaxCubeRoot * MaxCubeRoot * MaxCubeRoot + MaxCubeRoot)
    /\ call = NoCall
    /\ InitEditorState

-----------------------------------------------------------------------------
(***************************************************************************)
(* The analyzer applied to the grid at hand.                               *)
(***************************************************************************)

FindConnectedComponents ==
    /\ call = NoCall
    /\ call' = [fn |-> "findConnectedComponents",
                result |-> findConnectedComponents(voxelData, gridSize)]
    /\ UNCHANGED <<gridSize, voxelData, jsonData, length, editor>>

IsShapeConnected(connectivityType) ==
    /\ call = NoCall
    /\ call' = [fn |-> "isShapeConnected",
                connectivityType |-> connectivityType,
                result |-> isShapeConnected(voxelData, gridSize,
                                            connectivityType)]
    /\ UNCHANGED <<gridSize, voxelData, jsonData, length, editor>>

NextAnalyzer ==
    \/ FindConnectedComponents
    \/ \E t \in ConnectivityTypes : IsShapeConnected(t)

SpecAnalyzer == InitGrid /\ [][NextAnalyzer]_vars

(***************************************************************************)
(* The validator applied to the grid at hand.                              *)
(***************************************************************************)

ValidateShape(connectivityType) ==
    /\ call = NoCall
    /\ call' = [fn |-> "validateShape",
                connectivityType |-> connectivityType,
                result |-> validateShape(voxelData, gridSize,
                                         connectivityType)]
    /\ UNCHANGED <<gridSize, voxelData, jsonData, length, editor>>

NextValidator == \E t \in ConnectivityTypes : ValidateShape(t)

SpecValidator == InitShape /\ [][NextValidator]_vars

(***************************************************************************)
(* The codec: the grid at hand is encoded into the payload, the payload's  *)
(* string (encoded or received) is decoded, a received payload is          *)
(* imported.                                                               *)
(***************************************************************************)

VoxelDataToBinaryString ==
    /\ call = NoCall
    /\ jsonData' = [jsonData EXCEPT
                      !.voxelDataString = voxelDataToBinaryString(voxelData)]
    /\ call' = [fn |-> "voxelDataToBinaryString"]
    /\ UNCHANGED <<gridSize, voxelData, length, editor>>

BinaryStringToVoxelData ==
    /\ call.fn \in {"voxelDataToBinaryString", "received"}
    /\ call' = [fn |-> "binaryStringToVoxelData",
                after |-> call.fn,
                result |-> binaryStringToVoxelData(jsonData.voxelDataString)]
    /\ UNCHANGED <<gridSize, voxelData, jsonData, length, editor>>

ImportFromJSON ==
    /\ call.fn \in {"received", "exportToJSON"}
    /\ call' = [fn |-> "importFromJSON",
                after |-> call.fn,
                result |-> importFromJSON(jsonData)]
    /\ UNCHANGED <<gridSize, voxelData, jsonData, length, editor>>

NextCodec ==
    \/ VoxelDataToBinaryString
    \/ BinaryStringToVoxelData
    \/ ImportFromJSON

SpecCodec == (InitGrid \/ InitPayload) /\ [][NextCodec]_vars

(***************************************************************************)
(* Export and import: the grid at hand is exported with its metadata, the  *)
(* payload (exported or received) is imported.                             *)
(***************************************************************************)

ExportToJSON ==
    /\ call = NoCall
    /\ jsonData' = exportToJSON(voxelData, shapeMetadata)
    /\ call' = [fn |-> "exportToJSON"]
    /\ UNCHANGED <<gridSize, voxelData, length, editor>>

NextExport ==
    \/ ExportToJSON
    \/ ImportFromJSON

SpecExport == (InitGridWithMetadata \/ InitPayload) /\ [][NextExport]_vars

(***************************************************************************)
(* A received payload is imported for a target size.                       *)
(***************************************************************************)

ImportFromJSONWithGridConversion(targetGridSize) ==
    /\ call = Received
    /\ call' = [fn |-> "importFromJSONWithGridConversion",
                targetGridSize |-> targetGridSize,
                result |-> importFromJSONWithGridConversion(jsonData,
                                                            targetGridSize)]
    /\ UNCHANGED <<gridSize, voxelData, jsonData, length, editor>>

NextImport ==
    \E t \in 0..MaxTargetSize : ImportFromJSONWithGridConversion(t)

SpecImport == InitPayload /\ [][NextImport]_vars

(***************************************************************************)
(* A parsed payload is validated.                                          *)
(***************************************************************************)

ValidateJSONFormat ==
    /\ call = Received
    /\ call' = [fn |-> "validateJSONFormat",
                result |-> validateJSONFormat(jsonData)]
    /\ UNCHANGED <<gridSize, voxelData, jsonData, length, editor>>

NextFormat == ValidateJSONFormat

SpecFormat == InitParsed /\ [][NextFormat]_vars

(***************************************************************************)
(* A received payload is validated and, when its format is valid, decoded  *)
(* for the editor's grid, as reader.onload does.                           *)
(***************************************************************************)

\* the fields of a parsed object as the codec reads them
PayloadFields(json) ==
    [voxelDataString |-> json.voxelDataString.chars,
     difficulty |-> json.difficulty, maxMoves |-> json.maxMoves]

\* past the return on !formatValidation.isValid:
\* importFromJSONWithGridConversion(jsonData, gridSize), gridSize = 7
ImportValidated ==
    /\ call.fn = "validateJSONFormat"
    /\ call.result.isValid
    /\ call' = [fn |-> "importFromJSONWithGridConversion",
                targetGridSize |-> 7,
                result |-> importFromJSONWithGridConversion(
                               PayloadFields(jsonData), 7)]
    /\ UNCHANGED <<gridSize, voxelData, jsonData, length, editor>>

NextLoadable ==
    \/ ValidateJSONFormat
    \/ ImportValidated

SpecLoadable == InitParsed /\ [][NextLoadable]_vars

(***************************************************************************)
(* The editor.  jsonData is the payload downloaded by the last step, if    *)
(* there is one; call.fn is the handler that ran last.                     *)
(***************************************************************************)

\* faulty variant: if (currentVoxelCount < 1)
IsLastVoxelAtZero(currentVoxelCount) == currentVoxelCount < 1

\* if (currentVoxelCount <= 1)
IsLastVoxel(currentVoxelCount) == currentVoxelCount <= 1

HandleVoxelAction(x, y, z) ==
    LET index == getVoxelIndex(x, y, z, gridSize)
    IN /\ IF voxelMode = "add"
          THEN /\ voxelData' = ArraySet(voxelData, index, TRUE)
               /\ statusMessage' =
                    <<"Added voxel at (", x, ", ", y, ", ", z, ")">>
          ELSE IF IsLastVoxel(CountVoxels(voxelData))
          THEN /\ voxelData' = voxelData
               /\ statusMessage' =
                    <<"Cannot remove last voxel - shape must have at least one voxel">>
          ELSE /\ voxelData' = ArraySet(voxelData, index, FALSE)
               /\ statusMessage' =
                    <<"Removed voxel at (", x, ", ", y, ", ", z, ")">>
       /\ jsonData' = NoPayload
       /\ call' = [fn |-> "handleVoxelAction"]
       /\ UNCHANGED <<gridSize, length, voxelMode, shapeMetadata>>

HandleFillCube ==
    /\ voxelData' = initializeFilledCube(gridSize)
    /\ statusMessage' = <<"Filled entire cube">>
    /\ jsonData' = NoPayload
    /\ call' = [fn |-> "handleFillCube"]
    /\ UNCHANGED <<gridSize, length, voxelMode, shapeMetadata>>

HandleClearGrid ==
    LET centerX == gridSize \div 2
        centerY == gridSize \div 2
        centerZ == gridSize \div 2
        centerIndex == centerX + centerY * gridSize
                         + centerZ * gridSize * gridSize
    IN /\ voxelData' =
            ArraySet(FilledArray(gridSize * gridSize * gridSize, FALSE),
                     centerIndex, TRUE)
       /\ statusMessage' =
            <<"Cleared shape - center voxel remains at (", centerX, ", ",
              centerY, ", ", centerZ, ")">>
       /\ jsonData' = NoPayload
       /\ call' = [fn |-> "handleClearGrid"]
       /\ UNCHANGED <<gridSize, length, voxelMode, shapeMetadata>>

\* Toolbar: onMetadataChange({...shapeMetadata, [field]: parseInt(value)})
HandleMetadataChange(newMetadata) ==
    /\ shapeMetadata' = newMetadata
    /\ jsonData' = NoPayload
    /\ call' = [fn |-> "handleMetadataChange"]
    /\ UNCHANGED <<gridSize, voxelData, length, voxelMode, statusMessage>>

HandleModeToggle ==
    LET newMode == IF voxelMode = "add" THEN "remove" ELSE "add"
    IN /\ voxelMode' = newMode
       /\ statusMessage' =
            <<"Switched to ", newMode, " mode - Left click to ", newMode,
              " voxels, right click to rotate camera">>
       /\ jsonData' = NoPayload
       /\ call' = [fn |-> "handleModeToggle"]
       /\ UNCHANGED <<gridSize, voxelData, length, shapeMetadata>>

\* faulty variant: if (!validation.hasVoxels)
SaveRefusedWithoutVoxels(validation) == ~validation.hasVoxels

\* if (!validation.isValid)
SaveRefused(validation) == ~validation.isValid

HandleSaveShape ==
    LET validation == validateShape(voxelData, gridSize, "face")
    IN /\ IF SaveRefused(validation)
          THEN /\ statusMessage' = <<"Save failed - shape is invalid">>
               /\ jsonData' = NoPayload
               /\ call' = [fn |-> "handleSaveShape", exported |-> FALSE]
          ELSE /\ statusMessage' = <<"Shape downloaded successfully">>
               /\ jsonData' = exportToJSON(voxelData, shapeMetadata)
               /\ call' = [fn |-> "handleSaveShape", exported |-> TRUE]
       /\ UNCHANGED <<gridSize, voxelData, length, voxelMode, shapeMetadata>>

\* the payload as importFromJSON reads it, once validateJSONFormat has found
\* voxelDataString to be a string
\* faulty variant: a file whose only error is its difficulty is not refused
LoadRefusedUnlessDifficulty(formatValidation) ==
    /\ ~formatValidation.isValid
    /\ formatValidation.errors
         # << <<"difficulty must be an integer from 1 to 10">> >>

\* if (!formatValidation.isValid)
LoadRefused(formatValidation) == ~formatValidation.isValid

\* reader.onload for the file picked; JSON.parse throws on a text that is
\* not JSON
HandleLoadShape(file) ==
    /\ IF file = Unparsable
       THEN /\ statusMessage' = <<"Load error: ", "not JSON">>
            /\ UNCHANGED <<voxelData, shapeMetadata>>
       ELSE IF LoadRefused(validateJSONFormat(file))
       THEN /\ statusMessage' = <<"Load failed - invalid format">>
            /\ UNCHANGED <<voxelData, shapeMetadata>>
       ELSE LET importedData ==
                    importFromJSONWithGridConversion(PayloadFields(file),
                                                     gridSize)
            IN IF importedData.threw
               THEN /\ statusMessage' = <<"Load error: ", importedData.value>>
                    /\ UNCHANGED <<voxelData, shapeMetadata>>
               ELSE /\ voxelData' = importedData.value.voxelData
                    /\ shapeMetadata' = importedData.value.metadata
                    /\ statusMessage' =
                         IF importedData.value.wasConverted
                         THEN <<"Shape loaded from ", "file",
                                " (converted from ",
                                importedData.value.originalGridSize,
                                " to ", gridSize, ")">>
                         ELSE <<"Shape loaded from ", "file">>
    /\ jsonData' = NoPayload
    /\ call' = [fn |-> "handleLoadShape"]
    /\ UNCHANGED <<gridSize, length, voxelMode>>

NextEditor ==
    \/ \E p \in ClickCells : HandleVoxelAction(p[1], p[2], p[3])
    \/ HandleFillCube
    \/ HandleClearGrid
    \/ \E v \in TypedValues :
          \/ HandleMetadataChange([shapeMetadata EXCEPT !.difficulty = v])
          \/ HandleMetadataChange([shapeMetadata EXCEPT !.maxMoves = v])
    \/ HandleModeToggle
    \/ HandleSaveShape
    \/ \E file \in InputFiles : HandleLoadShape(file)

SpecEditor == InitEditor /\ [][NextEditor]_vars

(***************************************************************************)
(* Sculpting: the runs of the editor made of clicks, Fill Cube, Clear and  *)
(* mode toggles.                                                           *)
(***************************************************************************)

NextSculpt ==
    \/ \E p \in SculptCells : HandleVoxelAction(p[1], p[2], p[3])
    \/ HandleFillCube
    \/ HandleClearGrid
    \/ HandleModeToggle

SpecSculpt == InitEditor /\ [][NextSculpt]_vars

(***************************************************************************)
(* detectGridSize applied to a string of the length at hand.               *)
(***************************************************************************)

DetectGridSize ==
    /\ call = NoCall
    /\ call' = [fn |-> "detectGridSize", result |-> DetectFromLength(length)]
    /\ UNCHANGED <<gridSize, voxelData, jsonData, length, editor>>

NextDetect == DetectGridSize

SpecDetect == InitLength /\ [][NextDetect]_vars

(***************************************************************************)
(* The resampler applied to the grid at hand, for a target size.           *)
(***************************************************************************)

ConvertGridSize(toGridSize) ==
    /\ call = NoCall
    /\ call' = [fn |-> "convertGridSize",
                toGridSize |-> toGridSize,
                result |-> convertGridSize(voxelData, gridSize, toGridSize)]
    /\ UNCHANGED <<gridSize, voxelData, jsonData, length, editor>>

NextResampler == \E t \in 0..MaxTargetSize : ConvertGridSize(t)

SpecResampler == InitGrid /\ [][NextResampler]_vars

SpecResamplerLarge == InitLargeGrid /\ [][NextResampler]_vars

-----------------------------------------------------------------------------
(***************************************************************************)
(* Reference notions the properties are stated with.  They are written     *)
(* from the data model (index = x + y*N + z*N*N; face, edge and corner     *)
(* adjacency as the number of axes on which two cells differ by one), not  *)
(* from the traversal code above.                                          *)
(***************************************************************************)

Coordinates(N) == (0..(N - 1)) \X (0..(N - 1)) \X (0..(N - 1))

OccupiedCells(arr, N) ==
    {p \in Coordinates(N) : arr[p[1] + N * p[2] + N * N * p[3] + 1]}

AbsDiff(a, b) == IF a >= b THEN a - b ELSE b - a

AxesDiffering(p, q) == Cardinality({i \in 1..3 : p[i] # q[i]})

\* p and q touch by a face (1 axis), an edge (2 axes) or a corner (3 axes)
Touching(p, q, axes) ==
    /\ p # q
    /\ \A i \in 1..3 : AbsDiff(p[i], q[i]) <= 1
    /\ AxesDiffering(p, q) <= axes

RuleAxes(connectivityType) ==
    CASE connectivityType = "face" -> 1
      [] connectivityType = "edge" -> 2
      [] connectivityType = "corner" -> 3

RECURSIVE ReachableWithin(_, _, _)
ReachableWithin(reached, cells, axes) ==
    LET more == {q \in cells : \E p \in reached : Touching(p, q, axes)}
    IN IF more \subseteq reached THEN reached
       ELSE ReachableWithin(reached \cup more, cells, axes)

\* p comes before q in the scan: x outermost, then y, then z
ScansBefore(p, q) ==
    \/ p[1] < q[1]
    \/ p[1] = q[1] /\ p[2] < q[2]
    \/ p[1] = q[1] /\ p[2] = q[2] /\ p[3] <= q[3]

FirstScanned(cells) == CHOOSE p \in cells : \A q \in cells : ScansBefore(p, q)

StrongerRules(connectivityType) ==
    CASE connectivityType = "face" -> {"edge", "corner"}
      [] connectivityType = "edge" -> {"corner"}
      [] connectivityType = "corner" -> {}

\* exactly two occupied cells, one apart on every axis
DiagonalPair(arr, N) ==
    LET cells == OccupiedCells(arr, N)
    IN /\ Cardinality(cells) = 2
       /\ \A p, q \in cells : p # q => \A i \in 1..3 : AbsDiff(p[i], q[i]) = 1

\* the cells one step along one axis from p
FaceNeighbours(p) ==
    {[p EXCEPT ![i] = p[i] + d] : i \in 1..3, d \in {-1, 1}}

RECURSIVE FaceGrow(_, _, _)
\* the cells reached from the frontier through cells touching by a face
FaceGrow(reached, frontier, cells) ==
    IF frontier = {} THEN reached
    ELSE LET next == (UNION {FaceNeighbours(p) : p \in frontier} \cap cells)
                       \ reached
         IN FaceGrow(reached \cup next, next, cells)

\* some cell is occupied and every occupied cell is reached from it
FaceConnected(cells) ==
    /\ cells # {}
    /\ LET p == CHOOSE q \in cells : TRUE
       IN FaceGrow({p}, {p}, cells) = cells

-----------------------------------------------------------------------------
(***************************************************************************)
(* Properties                                                              *)
(***************************************************************************)

\* C1: the components findConnectedComponents returns partition the occupied
\* cells: no component is empty, every listed position is an occupied cell
\* of the grid, and every occupied cell is listed exactly once over all
\* components.
C1_ComponentsPartitionOccupied ==
    call.fn = "findConnectedComponents" =>
        LET components == call.result
            cells == OccupiedCells(voxelData, gridSize)
            holding(p) == {c \in 1..Len(components) :
                             \E i \in 1..Len(components[c]) :
                                components[c][i] = p}
        IN /\ \A c \in 1..Len(components) :
                /\ Len(components[c]) > 0
                /\ \A i \in 1..Len(components[c]) : components[c][i] \in cells
                /\ \A i, j \in 1..Len(components[c]) :
                      components[c][i] = components[c][j] => i = j
           /\ \A p \in cells : Cardinality(holding(p)) = 1

\* C1 witness: two components were found, one of them of several cells
C1_Witness ==
    /\ call.fn = "findConnectedComponents"
    /\ gridSize >= 1
    /\ Len(call.result) = 2
    /\ \E c \in 1..2 : Len(call.result[c]) >= 2

\* C2: isShapeConnected is true exactly when the grid has an occupied cell
\* and every occupied cell is reachable from the first occupied cell of the
\* scan through occupied cells touching under the rule.
C2_ConnectedIffAllReachable ==
    call.fn = "isShapeConnected" =>
        LET cells == OccupiedCells(voxelData, gridSize)
        IN call.result =
             (/\ cells # {}
              /\ cells \subseteq
                   ReachableWithin({FirstScanned(cells)}, cells,
                                   RuleAxes(call.connectivityType)))

\* C2 witness: three cells found connected by faces and edges
C2_Witness ==
    /\ call.fn = "isShapeConnected"
    /\ call.connectivityType = "edge"
    /\ call.result
    /\ CountVoxels(voxelData) = 3

\* C3: a grid found connected under a rule is connected under every
\* stronger rule (face, then edge, then corner).
C3_MonotonicInRule ==
    (call.fn = "isShapeConnected" /\ call.result) =>
        \A t \in StrongerRules(call.connectivityType) :
            isShapeConnected(voxelData, gridSize, t)

\* C3 witness: several cells found connected by faces
C3_Witness ==
    /\ call.fn = "isShapeConnected"
    /\ call.connectivityType = "face"
    /\ call.result
    /\ CountVoxels(voxelData) >= 2

\* C4: two occupied cells one apart on all three axes, and no other, are
\* not connected by faces and are connected by corners.
C4_DiagonalPair ==
    (call.fn = "isShapeConnected" /\ DiagonalPair(voxelData, gridSize)) =>
        /\ call.connectivityType = "face" => ~call.result
        /\ call.connectivityType = "corner" => call.result

\* C4 witness: scenario A, (0,0,0) and (1,1,1) of a grid of side 2, by corners
C4_Witness ==
    /\ call.fn = "isShapeConnected"
    /\ call.connectivityType = "corner"
    /\ gridSize = 2
    /\ OccupiedCells(voxelData, gridSize) = {<<0, 0, 0>>, <<1, 1, 1>>}
    /\ call.result

\* C5: the encoded string has one character per cell in index order, '1'
\* for an occupied cell and '0' otherwise, and decoding it gives the grid
\* back cell for cell.
C5_CodecRoundTrip ==
    /\ (\/ call.fn = "voxelDataToBinaryString"
        \/ call.fn = "binaryStringToVoxelData"
           /\ call.after = "voxelDataToBinaryString") =>
           /\ Len(jsonData.voxelDataString) = Len(voxelData)
           /\ \A i \in 1..Len(voxelData) :
                jsonData.voxelDataString[i] =
                    (IF voxelData[i] THEN "1" ELSE "0")
    /\ (call.fn = "binaryStringToVoxelData"
        /\ call.after = "voxelDataToBinaryString") =>
           call.result = voxelData

\* C5 witness: a grid of side 2 with occupied and free cells was encoded and
\* decoded
C5_Witness ==
    /\ call.fn = "binaryStringToVoxelData"
    /\ call.after = "voxelDataToBinaryString"
    /\ gridSize = 2
    /\ CountVoxels(voxelData) >= 2

\* C6: detectGridSize returns N exactly when the length is N^3, throws the
\* not-a-perfect-cube error for every other length, and never returns a
\* value whose cube is not the length.
C6_DetectGridSize ==
    call.fn = "detectGridSize" =>
        LET r == call.result
            roots == {n \in 0..(MaxCubeRoot + 1) : n * n * n = length}
        IN /\ ~r.threw => r.value * r.value * r.value = length
           /\ \A n \in roots : ~r.threw /\ r.value = n
           /\ roots = {} => r.threw /\ r.value = NotPerfectCube(length)

\* C6 witness: the largest cube of the model was recognised
C6_Witness ==
    /\ call.fn = "detectGridSize"
    /\ length = MaxCubeRoot * MaxCubeRoot * MaxCubeRoot
    /\ ~call.result.threw
    /\ call.result.value = MaxCubeRoot

\* C7: every payload importFromJSON accepts decodes to a grid size of at
\* least 1 and a grid of gridSize^3 cells.
C7_DecodedGridSizePositive ==
    (call.fn = "importFromJSON" /\ ~call.result.threw) =>
        LET r == call.result.value
        IN /\ r.gridSize >= 1
           /\ Len(r.voxelData) = r.gridSize * r.gridSize * r.gridSize

\* C8: convertGridSize returns exactly toGridSize^3 cells.
C8_ResultHasTargetCells ==
    call.fn = "convertGridSize" =>
        Len(call.result) = call.toGridSize * call.toGridSize * call.toGridSize

\* C8 witness: a grid with several occupied cells expanded by one
C8_Witness ==
    /\ call.fn = "convertGridSize"
    /\ call.toGridSize = gridSize + 1
    /\ CountVoxels(voxelData) >= 2

\* C9: converting to the same size gives the grid back cell for cell.
C9_SameSizeIsIdentity ==
    (call.fn = "convertGridSize" /\ call.toGridSize = gridSize) =>
        call.result = voxelData

\* C9 witness: a grid of side 2 with occupied and free cells, converted to
\* side 2
C9_Witness ==
    /\ call.fn = "convertGridSize"
    /\ call.toGridSize = gridSize
    /\ gridSize = 2
    /\ CountVoxels(voxelData) >= 2

\* C10: a grid expanded to a size at least its own and then converted back
\* to its size is the grid again, cell for cell.
C10_ExpandThenCrop ==
    (call.fn = "convertGridSize" /\ gridSize <= call.toGridSize) =>
        convertGridSize(call.result, call.toGridSize, gridSize) = voxelData

\* C10 witness: a grid of side 2 expanded by an odd difference
C10_Witness ==
    /\ call.fn = "convertGridSize"
    /\ gridSize = 2
    /\ call.toGridSize = 3
    /\ CountVoxels(call.result) >= 2

\* C11: expanding (fromGridSize <= toGridSize) with offset =
\* floor((toGridSize - fromGridSize) / 2) puts source cell (x, y, z) at
\* (x + offset, y + offset, z + offset), leaves every other cell false,
\* writes only inside the toGridSize^3 cells and keeps the occupied count.
C11_ExpandCenters ==
    (call.fn = "convertGridSize" /\ gridSize <= call.toGridSize) =>
        LET S == gridSize
            T == call.toGridSize
            offset == (T - S) \div 2
            moved(q) == <<q[1] - offset, q[2] - offset, q[3] - offset>>
        IN /\ Len(call.result) = T * T * T
           /\ \A p \in Coordinates(S) :
                /\ (p[1] + offset) + T * (p[2] + offset)
                     + T * T * (p[3] + offset) \in 0..(T * T * T - 1)
                /\ call.result[(p[1] + offset) + T * (p[2] + offset)
                                 + T * T * (p[3] + offset) + 1]
                     = voxelData[p[1] + S * p[2] + S * S * p[3] + 1]
           /\ \A q \in Coordinates(T) :
                moved(q) \notin Coordinates(S) =>
                    ~call.result[q[1] + T * q[2] + T * T * q[3] + 1]
           /\ CountVoxels(call.result) = CountVoxels(voxelData)

\* C11 witness: a grid of side 2 with several occupied cells expanded to
\* side 4 (offset 1)
C11_Witness ==
    /\ call.fn = "convertGridSize"
    /\ gridSize = 2
    /\ call.toGridSize = 4
    /\ CountVoxels(voxelData) >= 2

\* C12: shrinking (fromGridSize > toGridSize) with offset =
\* floor((fromGridSize - toGridSize) / 2) makes result cell (x, y, z) the
\* source cell (x + offset, y + offset, z + offset), which is always inside
\* the source grid; the result has toGridSize^3 cells and no more occupied
\* cells than the source (the cells outside the window are dropped).
C12_ShrinkCrops ==
    (call.fn = "convertGridSize" /\ gridSize > call.toGridSize) =>
        LET S == gridSize
            T == call.toGridSize
            offset == (S - T) \div 2
        IN /\ Len(call.result) = T * T * T
           /\ \A q \in Coordinates(T) :
                /\ <<q[1] + offset, q[2] + offset, q[3] + offset>>
                     \in Coordinates(S)
                /\ call.result[q[1] + T * q[2] + T * T * q[3] + 1]
                     = voxelData[(q[1] + offset) + S * (q[2] + offset)
                                   + S * S * (q[3] + offset) + 1]
           /\ CountVoxels(call.result) <= CountVoxels(voxelData)

\* C12 witness: a full grid of side 4 shrunk to side 2 (offset 1), which
\* drops occupied cells
C12_Witness ==
    /\ call.fn = "convertGridSize"
    /\ gridSize = 4
    /\ call.toGridSize = 2
    /\ CountVoxels(voxelData) = 64
    /\ CountVoxels(call.result) = 8

\* C13: importFromJSONWithGridConversion(payload, targetN), when the payload
\* decodes: if the detected size is targetN the result is the decoded grid
\* with wasConverted = false; otherwise wasConverted = true, originalGridSize
\* is the detected size, gridSize is targetN and the grid is the resampled
\* one; either way the grid has targetN^3 cells and the metadata is the
\* decoded metadata.
C13_ImportWithConversion ==
    (call.fn = "importFromJSONWithGridConversion" /\ ~call.result.threw) =>
        LET decoded == importFromJSON(jsonData).value
            T == call.targetGridSize
            out == call.result.value
        IN /\ decoded.gridSize = T =>
                /\ out.wasConverted = FALSE
                /\ out.voxelData = decoded.voxelData
                /\ out.gridSize = T
           /\ decoded.gridSize # T =>
                /\ out.wasConverted = TRUE
                /\ out.originalGridSize = decoded.gridSize
                /\ out.gridSize = T
                /\ out.voxelData = convertGridSize(decoded.voxelData,
                                                   decoded.gridSize, T)
           /\ Len(out.voxelData) = T * T * T
           /\ out.metadata = decoded.metadata

\* C13 witness: a payload of 8 cells, some occupied, imported for size 3 and
\* so converted
C13_Witness ==
    /\ call.fn = "importFromJSONWithGridConversion"
    /\ ~call.result.threw
    /\ call.targetGridSize = 3
    /\ call.result.value.wasConverted
    /\ call.result.value.originalGridSize = 2
    /\ CountVoxels(call.result.value.voxelData) >= 1

\* C14: exportToJSON and importFromJSON each replace a missing or falsy
\* (0 included) difficulty by 5 and maxMoves by 50 and pass any other value
\* through; so a grid exported with difficulty 0 and maxMoves 0 imports with
\* 5 and 50; and the exported string and the grid imported back do not
\* depend on the metadata.
C14_FalsyDefaults ==
    LET missingOrFalsy(v) == v = JsUndefined \/ v = JsNumber(0)
        coalesced(v, d) == IF missingOrFalsy(v) THEN JsNumber(d) ELSE v
        zero == [difficulty |-> JsNumber(0), maxMoves |-> JsNumber(0)]
    IN /\ call.fn = "exportToJSON" =>
            /\ jsonData.difficulty = coalesced(shapeMetadata.difficulty, 5)
            /\ jsonData.maxMoves = coalesced(shapeMetadata.maxMoves, 50)
            /\ jsonData.voxelDataString
                 = [i \in 1..Len(voxelData) |->
                        IF voxelData[i] THEN "1" ELSE "0"]
       /\ (call.fn = "importFromJSON" /\ ~call.result.threw) =>
            /\ call.result.value.metadata.difficulty
                 = coalesced(jsonData.difficulty, 5)
            /\ call.result.value.metadata.maxMoves
                 = coalesced(jsonData.maxMoves, 50)
       /\ (call.fn = "importFromJSON" /\ call.after = "exportToJSON") =>
            /\ ~call.result.threw
            /\ call.result.value.voxelData = voxelData
            /\ shapeMetadata = zero =>
                 call.result.value.metadata
                   = [difficulty |-> JsNumber(5), maxMoves |-> JsNumber(50)]

\* C14 witness: a non-empty grid exported with difficulty 0 and maxMoves 0
\* and imported back
C14_Witness ==
    /\ call.fn = "importFromJSON"
    /\ call.after = "exportToJSON"
    /\ shapeMetadata.difficulty = JsNumber(0)
    /\ shapeMetadata.maxMoves = JsNumber(0)
    /\ CountVoxels(voxelData) >= 1

\* C15: validateJSONFormat gives a payload that is not an object (or is
\* null) exactly one error and stops; for an object payload the
\* voxelDataString check, the difficulty check (an integer in [1, 10]) and
\* the maxMoves check (an integer in [1, 999]) each add their error whatever
\* the others found, so a missing voxelDataString with difficulty and
\* maxMoves out of range gives three errors; isValid is true iff there is no
\* error.
C15_ErrorsAccumulate ==
    call.fn = "validateJSONFormat" =>
        LET p == jsonData
            r == call.result
            integerIn(v, lo, hi) == v.type = "number" /\ v.value \in lo..hi
            stringOk ==
                /\ p.voxelDataString.type = "string"
                /\ LET str == p.voxelDataString.chars
                   IN /\ Len(str) >= 1
                      /\ \A i \in 1..Len(str) : str[i] \in {"0", "1"}
                      /\ \E n \in 1..Len(str) : n * n * n = Len(str)
            errorIf(failed) == IF failed THEN 1 ELSE 0
            reported(text) ==
                \E i \in 1..Len(r.errors) : r.errors[i][1] = text
        IN /\ p.type # "object" =>
                r.errors = << <<"JSON must be an object">> >>
           /\ p.type = "object" =>
                /\ Len(r.errors)
                     = errorIf(~stringOk)
                       + errorIf(~integerIn(p.difficulty, 1, 10))
                       + errorIf(~integerIn(p.maxMoves, 1, 999))
                /\ ~integerIn(p.difficulty, 1, 10)
                     <=> reported("difficulty must be an integer from 1 to 10")
                /\ ~integerIn(p.maxMoves, 1, 999)
                     <=> reported("maxMoves must be an integer from 1 to 999")
                /\ p.voxelDataString.type = "undefined" =>
                     reported("Missing or invalid voxelDataString field")
           /\ r.isValid <=> r.errors = <<>>

\* C15 witness: an object without voxelDataString, with difficulty 11 and
\* maxMoves 1000, validated with three errors
C15_Witness ==
    /\ call.fn = "validateJSONFormat"
    /\ jsonData = JsObject(JsUndefined, JsNumber(11), JsNumber(1000))
    /\ Len(call.result.errors) = 3

\* C16: for an object payload with an integer difficulty in [1, 10], an
\* integer maxMoves in [1, 999] and a non-empty voxelDataString of 0 and 1
\* only, validateJSONFormat gives exactly the perfect-cube error naming the
\* length when the length is not a perfect cube, and no error with
\* isValid = true when it is, whatever the digits.
C16_CubeLengthOnly ==
    (/\ call.fn = "validateJSONFormat"
     /\ jsonData.type = "object"
     /\ jsonData.difficulty.type = "number"
     /\ jsonData.difficulty.value \in 1..10
     /\ jsonData.maxMoves.type = "number"
     /\ jsonData.maxMoves.value \in 1..999
     /\ jsonData.voxelDataString.type = "string"
     /\ Len(jsonData.voxelDataString.chars) >= 1
     /\ \A i \in 1..Len(jsonData.voxelDataString.chars) :
            jsonData.voxelDataString.chars[i] \in {"0", "1"}) =>
        LET len == Len(jsonData.voxelDataString.chars)
        IN IF \E n \in 1..len : n * n * n = len
           THEN call.result = [isValid |-> TRUE, errors |-> <<>>]
           ELSE call.result
                  = [isValid |-> FALSE,
                     errors |-> << <<"voxelDataString length (", len,
                                     ") is not a perfect cube">> >>]

\* C16 witness: a string of 1001 mixed digits with difficulty 5 and
\* maxMoves 999, validated with one error
C16_Witness ==
    /\ call.fn = "validateJSONFormat"
    /\ jsonData.type = "object"
    /\ jsonData.difficulty = JsNumber(5)
    /\ jsonData.maxMoves = JsNumber(999)
    /\ jsonData.voxelDataString.type = "string"
    /\ Len(jsonData.voxelDataString.chars) = 1001
    /\ jsonData.voxelDataString.chars[1] # jsonData.voxelDataString.chars[2]
    /\ Len(call.result.errors) = 1

\* C17: for every grid and rule validateShape returns hasVoxels (the grid
\* has an occupied cell), isConnected (it has and isShapeConnected says so
\* under the rule), isUniform = isConnected and isValid = hasVoxels and
\* isConnected; errors is empty iff isValid; and a non-empty grid whose
\* occupied cells all reach one another through faces is valid, with no
\* error, under 'face'.
C17_ValidIffNoError ==
    call.fn = "validateShape" =>
        LET r == call.result
            cells == OccupiedCells(voxelData, gridSize)
        IN /\ r.hasVoxels = (cells # {})
           /\ r.isConnected
                = (cells # {} /\ isShapeConnected(voxelData, gridSize,
                                                  call.connectivityType))
           /\ r.isUniform = r.isConnected
           /\ r.isValid = (r.hasVoxels /\ r.isConnected)
           /\ (r.errors = <<>>) = r.isValid
           /\ (/\ call.connectivityType = "face"
               /\ cells # {}
               /\ \A p \in cells : cells \subseteq ReachableWithin({p}, cells, 1))
                => (r.isValid /\ r.errors = <<>>)

\* C17 witness: a five-voxel plus in a grid of side 3 validated under 'face'
C17_Witness ==
    /\ call.fn = "validateShape"
    /\ call.connectivityType = "face"
    /\ gridSize = 3
    /\ CountVoxels(voxelData) = 5
    /\ call.result.isValid

\* C18: for a grid without occupied cell validateShape returns, under any
\* rule, hasVoxels = false, isConnected = false, isValid = false,
\* voxelCount = 0 and the single error 'Shape must have at least one voxel'.
C18_EmptyShape ==
    (call.fn = "validateShape" /\ OccupiedCells(voxelData, gridSize) = {}) =>
        /\ call.result.hasVoxels = FALSE
        /\ call.result.isConnected = FALSE
        /\ call.result.isValid = FALSE
        /\ call.result.voxelCount = 0
        /\ call.result.errors = << <<"Shape must have at least one voxel">> >>

\* C18 witness: an empty grid of side 2 validated under 'corner'
C18_Witness ==
    /\ call.fn = "validateShape"
    /\ call.connectivityType = "corner"
    /\ gridSize = 2
    /\ CountVoxels(voxelData) = 0
    /\ Len(call.result.errors) = 1

\* C19: when validateShape finds a non-empty grid not connected and the
\* discovery by faces found k > 1 components, errors is two messages: the
\* first tells k separate parts, the second the number of floating voxels and
\* k - 1 groups; the floating voxels are the occupied cells outside the
\* component of the first occupied cell of the scan (x outermost, then y,
\* then z), so their number is the occupied count minus that component's
\* size.
C19_FloatingVoxels ==
    (/\ call.fn = "validateShape"
     /\ call.result.hasVoxels
     /\ ~call.result.isConnected
     /\ call.result.debugInfo.componentCount > 1) =>
        LET r == call.result
            k == r.debugInfo.componentCount
            cells == OccupiedCells(voxelData, gridSize)
            first == ReachableWithin({FirstScanned(cells)}, cells, 1)
            floating == r.debugInfo.floatingVoxels
            desc == CASE call.connectivityType = "face" -> "by faces"
                      [] call.connectivityType = "edge" -> "by faces and edges"
                      [] call.connectivityType = "corner"
                           -> "by faces, edges and corners"
        IN /\ Len(r.errors) = 2
           /\ r.errors[1] = <<"All voxels must be connected ", desc,
                              " (found ", k, " separate parts)">>
           /\ r.errors[2] = <<"Floating voxels: ",
                              Cardinality(cells) - Cardinality(first),
                              " voxels in ", k - 1, " groups">>
           /\ {floating[i] : i \in 1..Len(floating)} = cells \ first
           /\ Len(floating) = Cardinality(cells) - Cardinality(first)

\* C19 witness: a plus and two corners, three parts by faces, validated
\* under 'face' with two floating voxels
C19_Witness ==
    /\ call.fn = "validateShape"
    /\ call.connectivityType = "face"
    /\ gridSize = 3
    /\ CountVoxels(voxelData) = 7
    /\ call.result.debugInfo.componentCount = 3
    /\ Len(call.result.debugInfo.floatingVoxels) = 2
    /\ Len(call.result.errors) = 2

\* C20: in every run of the editor, handleSaveShape exports a payload only
\* if validateShape(voxelData, 7, 'face') is valid for the grid of that
\* moment; an exported voxelDataString is the encoding of that grid, has 343
\* characters and encodes a non-empty grid connected by faces; a save of an
\* invalid shape exports nothing.
C20_SaveGating ==
    /\ jsonData # NoPayload => (call.fn = "handleSaveShape" /\ call.exported)
    /\ call.fn = "handleSaveShape" =>
         LET valid == validateShape(voxelData, 7, "face").isValid
             str == jsonData.voxelDataString
             cells == {p \in Coordinates(7) :
                         str[p[1] + 7 * p[2] + 49 * p[3] + 1] = "1"}
         IN /\ call.exported = valid
            /\ ~call.exported => jsonData = NoPayload
            /\ call.exported =>
                 /\ Len(str) = 343
                 /\ \A i \in 1..343 : (str[i] = "1") = voxelData[i]
                 /\ \A i \in 1..343 : str[i] \in {"0", "1"}
                 /\ FaceConnected(cells)

\* C20 witness: a cube with the corner and the centre removed has been saved
C20_Witness ==
    /\ call.fn = "handleSaveShape"
    /\ call.exported
    /\ CountVoxels(voxelData) = 341
    /\ Len(jsonData.voxelDataString) = 343

\* C21: a remove request made while at most one cell is occupied leaves the
\* grid as it is; so, from the filled cube, after any clicks (add or remove),
\* Fill Cube, Clear and mode toggles the grid has 343 cells, at least one of
\* them occupied; and Clear leaves the cell (3, 3, 3) occupied, and no other.
C21_LastVoxelGuard ==
    /\ [](/\ Len(voxelData) = 343
          /\ \E i \in 1..343 : voxelData[i]
          /\ call.fn = "handleClearGrid" =>
               \A p \in Coordinates(7) :
                   voxelData[p[1] + 7 * p[2] + 49 * p[3] + 1]
                     = (p = <<3, 3, 3>>))
    /\ [][(/\ call'.fn = "handleVoxelAction"
           /\ voxelMode = "remove"
           /\ Cardinality({i \in 1..Len(voxelData) : voxelData[i]}) <= 1)
            => voxelData' = voxelData]_vars

\* C21 witness: the removal of the only occupied cell has just been refused
C21_Witness ==
    /\ call.fn = "handleVoxelAction"
    /\ voxelMode = "remove"
    /\ statusMessage[1]
         = "Cannot remove last voxel - shape must have at least one voxel"
    /\ CountVoxels(voxelData) = 1

\* C22: under the rule 'face', for every grid of N^3 cells with an occupied
\* cell, validateShape reports isConnected = true iff its
\* debugInfo.componentCount is 1; so a verdict 'not connected' comes with
\* componentCount > 1 and the two errors of that case, never with the
\* message 'All voxels must be connected (no floating parts)'.
C22_FaceVerdictsAgree ==
    (/\ call.fn = "validateShape"
     /\ call.connectivityType = "face"
     /\ Len(voxelData) = gridSize * gridSize * gridSize
     /\ OccupiedCells(voxelData, gridSize) # {}) =>
        LET r == call.result
        IN /\ r.isConnected = (r.debugInfo.componentCount = 1)
           /\ ~r.isConnected =>
                /\ r.debugInfo.componentCount > 1
                /\ Len(r.errors) = 2
                /\ \A i \in 1..Len(r.errors) :
                       r.errors[i][1]
                         # "All voxels must be connected (no floating parts)"

\* C22 witness: three cells of a grid of side 2, all occupied cells joined by
\* faces, validated under 'face': connected, one component
C22_Witness ==
    /\ call.fn = "validateShape"
    /\ call.connectivityType = "face"
    /\ gridSize = 2
    /\ CountVoxels(voxelData) = 3
    /\ call.result.isConnected
    /\ call.result.debugInfo.componentCount = 1

\* C23: a payload that validateJSONFormat finds valid is decoded for the
\* editor's grid of side 7 without an error: the size detected is at least
\* 1, the grid returned has 343 cells, and the metadata returned are the
\* payload's difficulty and maxMoves, no default taking their place.
C23_ValidPayloadDecodes ==
    call.fn = "importFromJSONWithGridConversion" =>
        /\ validateJSONFormat(jsonData).isValid
        /\ ~call.result.threw
        /\ LET importedData == call.result.value
               detected == IF importedData.wasConverted
                           THEN importedData.originalGridSize
                           ELSE importedData.gridSize
           IN /\ detected >= 1
              /\ detected * detected * detected
                   = Len(jsonData.voxelDataString.chars)
              /\ Len(importedData.voxelData) = 343
              /\ importedData.metadata.difficulty = jsonData.difficulty
              /\ importedData.metadata.maxMoves = jsonData.maxMoves

\* C23 witness: a valid payload of 1000 characters with difficulty 10 and
\* maxMoves 999 has been decoded and cropped from side 10
C23_Witness ==
    /\ call.fn = "importFromJSONWithGridConversion"
    /\ ~call.result.threw
    /\ call.result.value.wasConverted
    /\ call.result.value.originalGridSize = 10
    /\ Len(call.result.value.voxelData) = 343
    /\ jsonData.difficulty = JsNumber(10)
    /\ jsonData.maxMoves = JsNumber(999)
    /\ call.result.value.metadata
         = [difficulty |-> JsNumber(10), maxMoves |-> JsNumber(999)]

\* C24: a load of a file that is not JSON or that fails validateJSONFormat
\* changes neither the grid nor the metadata, only the status message; and a
\* load that changes the grid or the metadata is of a file that passed
\* validateJSONFormat, and sets both from the decoding of that file.
C24_FailedLoadKeepsState ==
    [][\A file \in InputFiles :
          (call'.fn = "handleLoadShape" /\ HandleLoadShape(file)) =>
             LET failed == \/ file = Unparsable
                           \/ ~validateJSONFormat(file).isValid
             IN /\ failed =>
                     /\ voxelData' = voxelData
                     /\ shapeMetadata' = shapeMetadata
                     /\ voxelMode' = voxelMode
                     /\ gridSize' = gridSize
                     /\ statusMessage'[1]
                          \in {"Load failed - invalid format", "Load error: "}
                /\ (voxelData' # voxelData \/ shapeMetadata' # shapeMetadata)
                     => /\ ~failed
                        /\ LET importedData ==
                                   importFromJSONWithGridConversion(
                                       PayloadFields(file), 7).value
                           IN /\ voxelData' = importedData.voxelData
                              /\ shapeMetadata' = importedData.metadata]_vars

\* C24 witness: after a file of one cell with difficulty 3 and maxMoves 7 was
\* loaded, a load has failed on the format and the editor still shows that
\* shape
C24_Witness ==
    /\ call.fn = "handleLoadShape"
    /\ statusMessage = <<"Load failed - invalid format">>
    /\ shapeMetadata = [difficulty |-> JsNumber(3), maxMoves |-> JsNumber(7)]
    /\ Len(voxelData) = 343
    /\ CountVoxels(voxelData) = 1
    /\ voxelData[getVoxelIndex(3, 3, 3, 7) + 1]

=============================================================================
